---- MODULE Spec2Model ----
(***************************************************************************)
(* metforce: composition of a meteorological forcing time series from a    *)
(* station table, archive (GRIB) records, sun positions (pvlib) and        *)
(* derived columns.  The model follows src/metforce/: one action per       *)
(* strategy call of process_met_data, one for the merge, one for the       *)
(* serializer, and operators for the pure helpers.                         *)
(*                                                                         *)
(* Time is counted in station sampling steps: slot 0, 1, 2, ...  The       *)
(* output grid (date_range) holds every Sub-th slot.  Numbers are fixed    *)
(* point: every drawn value is a multiple of Unit, so that the divisions   *)
(* of interpolation, mean and percentage are exact.                        *)
(*                                                                         *)
(* Beside the composition run (Spec, SpecDerived, SpecTwice) the module    *)
(* holds single calls: of get_grib_dates (SpecDates), of                   *)
(* fill_in_missing_metdata (SpecResample), of write_grib_file_to_path with *)
(* its retry loop (SpecDownload), of write_met_data's layout of one column *)
(* (SpecLayout) and of get_pressure_grib (SpecPressure); and two runs of   *)
(* the archive strategy over one cache folder (SpecCache).                 *)
(***************************************************************************)
EXTENDS Integers, Sequences, FiniteSets, TLC

\* ------------------------------------------------------------- bounds
\* number of timestamps of the output grid
GridLen == 2
\* station samples per output step (metstation_freq against freq)
Sub == 2

RECURSIVE Fact(_)
Fact(n) == IF n <= 1 THEN 1 ELSE n * Fact(n - 1)

Unit == 100 * 2 * Fact(Sub)

Slots == 0 .. (GridLen * Sub - 1)
\* pd.date_range(start_range, end_range, freq): strictly increasing
date_range == { g * Sub : g \in 0 .. (GridLen - 1) }

\* ------------------------------------------------------------- cells
NaN == [nan |-> TRUE, v |-> 0]
Num(x) == [nan |-> FALSE, v |-> x]

\* ------------------------------------------------------------- tables
\* a DataFrame: index, columns, and one cell per column and index entry;
\* present = FALSE stands for None
NoTable == [present |-> FALSE, idx |-> {}, cols |-> {}, val |-> <<>>]
Table(idx, cols, val) == [present |-> TRUE, idx |-> idx, cols |-> cols, val |-> val]

\* ------------------------------------------------------------- errors
NoErr == [kind |-> "none", param |-> ""]
Err(kind, param) == [kind |-> kind, param |-> param]
Ok(df) == [err |-> NoErr, df |-> df]
Raise(kind, param) == [err |-> Err(kind, param), df |-> NoTable]

\* ------------------------------------------------------------- registry
\* The physical parameters of the registry, cut down to the ones the
\* properties are about, in the order of default_met.
ParamOrder == <<"precipitation", "global_shortwave", "diffuse_shortwave", "direct_shortwave",
                "downwelling_lwir", "zenith">>
ParamNames == { ParamOrder[i] : i \in 1 .. Len(ParamOrder) }

default_met_keys(p) ==
    CASE p = "precipitation" -> "Precip_Tot"
      [] p = "global_shortwave" -> "PSP_Total"
      [] p = "diffuse_shortwave" -> "Diffuse"
      [] p = "direct_shortwave" -> "Direct"
      [] p = "downwelling_lwir" -> "PIR_Flux"
      [] OTHER -> "ZenDeg"

SyntheticCols == {"visibility", "aerosol", "cloud_cover_1", "cloud_cover_2", "cloud_cover_3",
                  "cloud_cover_4", "cloud_cover_5", "cloud_cover_6", "cloud_cover_7"}
DateCols == {"day", "hour", "minute"}
default_col_names == DateCols \cup SyntheticCols \cup ParamNames

grib_function_mapper == {"pressure", "temperature", "relative_humidity", "precipitation",
                         "wind_speed", "wind_direction", "global_shortwave", "downwelling_lwir"}
pvlib_parameter_map == {"zenith", "azimuth"}

\* source strings: startswith('global'), '%' in source, the percentage
GlobalSources == {"global_80%", "global_20%", "global", "global_fraction", "global_coszenith"}
StartsWithGlobal(s) == s \in GlobalSources
HasPercent(s) == s \in {"global_80%", "global_20%"}
Percent(s) == IF s = "global_80%" THEN 80 ELSE 20
\* 'fraction' in source, 'coszenith' in source
HasFraction(s) == s = "global_fraction"
HasCoszenith(s) == s = "global_coszenith"
\* the 'fraction' entry of a request, in percent; NoFraction: the entry is not there
NoFraction == 0 - 1

\* ------------------------------------------------------------- helpers
Max(S) == CHOOSE x \in S : \A y \in S : y <= x
Min(S) == CHOOSE x \in S : \A y \in S : x <= y
Range(f) == { f[x] : x \in DOMAIN f }

RECURSIVE SumOver(_, _)
\* sum of the non-missing cells x[t], t in S (pandas skips NaN)
SumOver(S, x) ==
    IF S = {} THEN 0
    ELSE LET t == CHOOSE u \in S : TRUE
         IN (IF x[t].nan THEN 0 ELSE x[t].v) + SumOver(S \ {t}, x)

\* the requested parameters whose source is src, as a set
WithSource(parameters, src) == { p \in DOMAIN parameters : parameters[p].source = src }

\* ------------------------------------------------------------- util.py
\* mutant of check_for_missing_dates: the difference taken the wrong way round
check_for_missing_dates_reversed(metdata, dates) == metdata.idx \ dates

check_for_missing_dates(metdata, dates) == dates \ metdata.idx

\* ------------------------------------------------------------- metstation.py
\* met_key = {key: value["key"] for ... if value["source"] == "met"}
MetKey(parameters) == [p \in WithSource(parameters, "met") |-> parameters[p].key]

\* Resampler.interpolate of one column over the slots lo..hi: a sample that
\* is absent or NaN is filled linearly between its valid neighbours, by the
\* last valid value after the last one, and stays NaN before the first one
interpolate(idx, x, lo, hi) ==
    LET Valid(t) == t \in idx /\ ~x[t].nan
    IN [t \in lo .. hi |->
          IF Valid(t) THEN x[t]
          ELSE LET before == { i \in lo .. hi : i < t /\ Valid(i) }
                   after == { j \in lo .. hi : j > t /\ Valid(j) }
               IN IF before = {} THEN NaN
                  ELSE IF after = {} THEN x[Max(before)]
                  ELSE LET i == Max(before)
                           j == Min(after)
                       IN Num(x[i].v + ((x[j].v - x[i].v) * (t - i)) \div (j - i))]

\* aggregation_methods: col is a station column name, met_key maps parameter
\* names to station column names, and met_key.get(col) looks col up as a
\* parameter name
aggregation_method(col, met_key) ==
    IF col \in Range(met_key) /\ col \in DOMAIN met_key /\ met_key[col] = "precipitation"
    THEN "sum" ELSE "mean"

\* Resampler.aggregate of one bin: the slots of y (defined on lo..hi) that
\* fall into the output step starting at g
aggregate(method, y, lo, hi, g) ==
    LET members == { t \in lo .. hi : t \div Sub = g \div Sub }
        valid == { t \in members : ~y[t].nan }
    IN IF method = "sum" THEN Num(SumOver(valid, y))
       ELSE IF valid = {} THEN NaN
       ELSE Num(SumOver(valid, y) \div Cardinality(valid))

\* the cells drawn here are numeric already, so pd.to_numeric(errors='coerce')
\* leaves them as they are
fill_in_missing_metdata(metdata, met_key, dates) ==
    LET keys == Range(met_key)
        absent == keys \ metdata.cols
    IN IF absent # {} THEN Raise("KeyError", CHOOSE k \in absent : TRUE)
       ELSE IF metdata.idx = {} THEN Ok(Table(dates, keys, [c \in keys |-> [g \in dates |-> NaN]]))
       ELSE LET lo == Min(metdata.idx)
                hi == Max(metdata.idx)
                filled == [c \in keys |-> interpolate(metdata.idx, metdata.val[c], lo, hi)]
                labels == { g \in dates : lo \div Sub <= g \div Sub /\ g \div Sub <= hi \div Sub }
            IN Ok(Table(dates, keys,
                        [c \in keys |->
                           [g \in dates |->
                              IF g \in labels
                              THEN aggregate(aggregation_method(c, met_key), filled[c], lo, hi, g)
                              ELSE NaN]]))

\* metdata.loc[met_station_df.index, key] raises KeyError when a label of the
\* index is missing from metdata; a key that is no station column is skipped
build_metstation_df(met_key, metdata, dates) ==
    LET found == { p \in DOMAIN met_key : met_key[p] \in metdata.cols }
    IN IF found # {} /\ ~(dates \subseteq metdata.idx)
       THEN Raise("KeyError", "DatetimeIndex")
       ELSE Ok(Table(dates, found, [p \in found |-> [g \in dates |-> metdata.val[met_key[p]][g]]]))

\* mutant of clip_global_shortwave: the negative values of every column are
\* set to zero
clip_every_column(df) ==
    IF "global_shortwave" \notin df.cols THEN Raise("KeyError", "global_shortwave")
    ELSE Ok([df EXCEPT !.val = [c \in df.cols |->
                [g \in df.idx |-> IF ~@[c][g].nan /\ @[c][g].v < 0 THEN Num(0) ELSE @[c][g]]]])

\* metstation_df.loc[metstation_df['global_shortwave'] < 0, 'global_shortwave'] = 0.0
clip_global_shortwave(df) ==
    IF "global_shortwave" \notin df.cols THEN Raise("KeyError", "global_shortwave")
    ELSE Ok([df EXCEPT !.val["global_shortwave"] =
                [g \in df.idx |-> IF ~@[g].nan /\ @[g].v < 0 THEN Num(0) ELSE @[g]]])

process_metstation_data(parameters, metdata, dates, interp_method) ==
    IF ~metdata.present THEN Ok(NoTable)
    ELSE LET met_key == MetKey(parameters)
             filled == IF interp_method # "None"
                       THEN fill_in_missing_metdata(metdata, met_key, dates)
                       ELSE Ok(metdata)
         IN IF filled.err # NoErr THEN filled
            ELSE LET built == build_metstation_df(met_key, filled.df, dates)
                 IN IF built.err # NoErr THEN built
                    ELSE clip_global_shortwave(built.df)

\* ------------------------------------------------------------- values
\* position of a name in a sequence of names (0 when it is not in it)
IndexIn(seq, name) ==
    IF \E i \in 1 .. Len(seq) : seq[i] = name
    THEN CHOOSE i \in 1 .. Len(seq) : seq[i] = name ELSE 0

\* the value an extraction function reads for parameter p from the complete
\* archive record of timestamp t
GribVal(p, t) == Num(Unit * (100 + 10 * IndexIn(ParamOrder, p) + t))
\* the sun position pvlib computes for parameter p at timestamp t
PvlibVal(p, t) == Num(Unit * (200 + 10 * IndexIn(ParamOrder, p) + t))

\* ------------------------------------------------------------- grib.py
\* mutant of get_grib_dates: the gap-fill branch tried before the any_grib one
get_grib_dates_gaps_first(metdata, parameters, dates, interp_method, pull_grib) ==
    LET any_grib == \E p \in DOMAIN parameters : parameters[p].source = "grib"
    IN IF metdata.present /\ interp_method = "None" /\ pull_grib
       THEN check_for_missing_dates(metdata, dates)
       ELSE IF any_grib THEN dates
       ELSE IF ~metdata.present /\ pull_grib THEN dates
       ELSE {}

\* mutant of get_grib_dates: the last branch does not ask for pull_grib
get_grib_dates_unasked(metdata, parameters, dates, interp_method, pull_grib) ==
    LET any_grib == \E p \in DOMAIN parameters : parameters[p].source = "grib"
    IN IF any_grib THEN dates
       ELSE IF metdata.present /\ interp_method = "None" /\ pull_grib /\ ~any_grib
            THEN check_for_missing_dates(metdata, dates)
       ELSE IF ~metdata.present THEN dates
       ELSE {}

get_grib_dates(metdata, parameters, dates, interp_method, pull_grib) ==
    LET any_grib == \E p \in DOMAIN parameters : parameters[p].source = "grib"
    IN IF any_grib THEN dates
       ELSE IF metdata.present /\ interp_method = "None" /\ pull_grib /\ ~any_grib
            THEN check_for_missing_dates(metdata, dates)
       ELSE IF ~metdata.present /\ pull_grib THEN dates
       ELSE {}

\* the requested parameters of a set, in the order of the request map
InOrder(S) == LET Test(p) == p \in S IN SelectSeq(ParamOrder, Test)

\* the message an extraction function reads first: gid_list[GID.X.value]
GID(p) ==
    CASE p = "temperature" -> 0
      [] p = "relative_humidity" -> 1
      [] p = "pressure" -> 2
      [] p \in {"wind_speed", "wind_direction"} -> 3
      [] p = "downwelling_lwir" -> 5
      [] p = "precipitation" -> 9
      [] OTHER -> 10

\* retrieve_gid_list: open(gribfile, "rb") raises when there is no such file;
\* the handles of the messages counted in the file are returned, as the set
\* of their positions.  A complete record holds eleven messages; a file that
\* is empty or incomplete (content "partial") holds none, which is logged as
\* a warning and returned all the same
retrieve_gid_list(content) ==
    IF content = "absent"
    THEN [err |-> Err("FileNotFoundError", "gribfile"), gid_list |-> {}]
    ELSE [err |-> NoErr, gid_list |-> IF content = "complete" THEN 0 .. 10 ELSE {}]

RECURSIVE ExtractErr(_, _)
\* the inner loop of build_grib_df over one record: the first parameter that
\* has no extraction function raises NotImplementedError, and an extraction
\* function indexes the message list, which raises IndexError when the list
\* is too short
ExtractErr(ps, gid_list) ==
    IF ps = <<>> THEN NoErr
    ELSE IF Head(ps) \notin grib_function_mapper THEN Err("NotImplementedError", Head(ps))
    ELSE IF GID(Head(ps)) \notin gid_list THEN Err("IndexError", Head(ps))
    ELSE ExtractErr(Tail(ps), gid_list)

\* retrieve_gid_list opens the file, then the inner loop runs
DateErr(ps, content) ==
    LET opened == retrieve_gid_list(content)
    IN IF opened.err # NoErr THEN opened.err ELSE ExtractErr(ps, opened.gid_list)

RECURSIVE FirstDateErr(_, _, _)
\* for date in sorted(grib_dates_and_files.keys())
FirstDateErr(dates, ps, files) ==
    IF dates = {} THEN NoErr
    ELSE LET d == Min(dates)
             e == DateErr(ps, files[d])
         IN IF e # NoErr THEN e ELSE FirstDateErr(dates \ {d}, ps, files)

\* dates: the keys of grib_files_and_dates; files: what each path holds now
build_grib_df(grib_parameters, dates, files) ==
    LET e == FirstDateErr(dates, InOrder(grib_parameters), files)
    IN IF e # NoErr THEN [err |-> e, df |-> NoTable]
       ELSE Ok(Table(dates, grib_parameters,
                     [p \in grib_parameters |-> [t \in dates |-> GribVal(p, t)]]))

\* ------------------------------------------------------------- pv.py
process_pvlib_data(parameters, dates) ==
    LET pvlib_parameters == WithSource(parameters, "pvlib")
        unsupported == pvlib_parameters \ pvlib_parameter_map
    IN IF pvlib_parameters = {} THEN Ok(NoTable)
       ELSE IF unsupported # {} THEN Raise("KeyError", CHOOSE p \in unsupported : TRUE)
       ELSE Ok(Table(dates, pvlib_parameters,
                     [p \in pvlib_parameters |-> [t \in dates |-> PvlibVal(p, t)]]))

\* ------------------------------------------------------------- derived_data.py
process_global_fraction(global_shortwave, percent) ==
    [t \in DOMAIN global_shortwave |->
        IF global_shortwave[t].nan THEN NaN
        ELSE Num((global_shortwave[t].v * percent) \div 100)]

\* pd.DataFrame(global_df_dict, index=date_range) aligns a column to the index
Align(col, from, to) == [t \in to |-> IF t \in from THEN col[t] ELSE NaN]

\* np.cos(np.radians(zenith)) in percent; the sun positions of the model stand
\* for the angles 0, 90, 60 and 120 degrees, by turns along the grid (at 120
\* degrees the sun is below the horizon and the cosine is negative)
cos_radians(z) ==
    CASE ((z.v \div Unit) \div Sub) % 4 = 0 -> 100
      [] ((z.v \div Unit) \div Sub) % 4 = 1 -> 0
      [] ((z.v \div Unit) \div Sub) % 4 = 2 -> 50
      [] OTHER -> 0 - 50

\* mutant of process_coszenith: the diffuse part is the complement of the
\* fraction, without the cosine
process_coszenith_complement(global_shortwave, zenith, fraction) ==
    LET direct == [t \in DOMAIN global_shortwave |->
                      IF global_shortwave[t].nan \/ t \notin DOMAIN zenith \/ zenith[t].nan THEN NaN
                      ELSE Num((global_shortwave[t].v * fraction * cos_radians(zenith[t])) \div 10000)]
    IN [direct_shortwave |-> direct,
        diffuse_shortwave |-> [t \in DOMAIN global_shortwave |->
                                  IF global_shortwave[t].nan THEN NaN
                                  ELSE Num((global_shortwave[t].v * (100 - fraction)) \div 100)]]

\* direct = global * fraction * cos(radians(zenith)); diffuse = global - direct
process_coszenith(global_shortwave, zenith, fraction) ==
    LET direct == [t \in DOMAIN global_shortwave |->
                      IF global_shortwave[t].nan \/ t \notin DOMAIN zenith \/ zenith[t].nan THEN NaN
                      ELSE Num((global_shortwave[t].v * fraction * cos_radians(zenith[t])) \div 10000)]
    IN [direct_shortwave |-> direct,
        diffuse_shortwave |-> [t \in DOMAIN global_shortwave |->
                                  IF global_shortwave[t].nan \/ direct[t].nan THEN NaN
                                  ELSE Num(global_shortwave[t].v - direct[t].v)]]

\* global_df_dict[p] = col, global_df_dict.update(...)
Put(cols, p, col) == [q \in DOMAIN cols \cup {p} |-> IF q = p THEN col ELSE cols[q]]

\* dataframes[parameters['zenith']['source']]['zenith'], or the error it raises
ZenithErr(parameters, dataframes) ==
    IF "zenith" \notin DOMAIN parameters THEN Err("KeyError", "zenith")
    ELSE LET src == parameters["zenith"].source
         IN IF src \notin DOMAIN dataframes THEN Err("KeyError", src)
            ELSE IF ~dataframes[src].present THEN Err("TypeError", src)
            ELSE IF "zenith" \notin dataframes[src].cols THEN Err("KeyError", "zenith")
            ELSE NoErr

RECURSIVE GlobalLoop(_, _, _, _, _, _)
\* the loop over global_parameters: each parameter is computed and its source
\* overwritten by 'global' before the next one is looked at
GlobalLoop(ps, parameters, gsw, cols, dates, dataframes) ==
    IF ps = <<>>
    THEN [err |-> NoErr, parameters |-> parameters,
          df |-> Table(dates, DOMAIN cols, [p \in DOMAIN cols |-> Align(cols[p], DOMAIN gsw, dates)])]
    ELSE LET p == Head(ps)
             source == parameters[p].source
             Fail(e) == [err |-> e, parameters |-> parameters, df |-> NoTable]
             Go(newcols) == GlobalLoop(Tail(ps), [parameters EXCEPT ![p].source = "global"],
                                       gsw, newcols, dates, dataframes)
         IN IF HasPercent(source)
            THEN Go(Put(cols, p, process_global_fraction(gsw, Percent(source))))
            ELSE IF HasFraction(source)
            THEN IF parameters[p].fraction = NoFraction THEN Fail(Err("KeyError", "fraction"))
                 ELSE Go(Put(cols, p, process_global_fraction(gsw, parameters[p].fraction)))
            ELSE IF HasCoszenith(source)
            THEN IF p = "direct_shortwave"
                 THEN IF ZenithErr(parameters, dataframes) # NoErr
                      THEN Fail(ZenithErr(parameters, dataframes))
                      ELSE IF parameters[p].fraction = NoFraction
                      THEN Fail(Err("KeyError", "fraction"))
                      ELSE LET zenith == dataframes[parameters["zenith"].source].val["zenith"]
                               both == process_coszenith(gsw, zenith, parameters[p].fraction)
                           IN Go(Put(Put(cols, "direct_shortwave", both.direct_shortwave),
                                     "diffuse_shortwave", both.diffuse_shortwave))
                 ELSE IF p = "diffuse_shortwave" THEN Go(cols)
                 ELSE Fail(Err("ValueError", p))
            ELSE Fail(Err("ValueError", p))

process_global_data(parameters, dates, dataframes) ==
    LET global_parameters == { p \in DOMAIN parameters : StartsWithGlobal(parameters[p].source) }
        Fail(kind, what) == [err |-> Err(kind, what), parameters |-> parameters, df |-> NoTable]
    IN IF global_parameters = {} THEN [err |-> NoErr, parameters |-> parameters, df |-> NoTable]
       ELSE IF "global_shortwave" \notin DOMAIN parameters THEN Fail("KeyError", "global_shortwave")
       ELSE LET src == parameters["global_shortwave"].source
            IN IF src \notin DOMAIN dataframes THEN Fail("KeyError", src)
               ELSE IF ~dataframes[src].present THEN Fail("TypeError", src)
               ELSE IF "global_shortwave" \notin dataframes[src].cols
                    THEN Fail("KeyError", "global_shortwave")
               ELSE GlobalLoop(InOrder(global_parameters), parameters,
                               dataframes[src].val["global_shortwave"], <<>>, dates, dataframes)

\* mutants of source_strategies: the station strategy first; the derived
\* strategy before the astronomical one
station_first_strategies == <<"met", "grib", "pvlib", "global">>
derived_early_strategies == <<"grib", "met", "global", "pvlib">>

\* ------------------------------------------------------------- sources.py
\* the insertion order of the source_strategies dict
source_strategies == <<"grib", "met", "pvlib", "global">>

\* ------------------------------------------------------------- merge.py
RECURSIVE MergeErr(_, _, _)
\* the loop of merge_met_dataframes: the first parameter whose source has no
\* table, or whose table lacks the column, raises KeyError
MergeErr(ps, parameters, tables) ==
    IF ps = <<>> THEN NoErr
    ELSE LET p == Head(ps)
             source == parameters[p].source
         IN IF source \notin DOMAIN tables THEN Err("KeyError", source)
            ELSE IF p \notin tables[source].cols THEN Err("KeyError", p)
            ELSE MergeErr(Tail(ps), parameters, tables)

\* mutant of merge_met_dataframes: a parameter whose source has no table or no
\* such column is left as the NaN column the merged frame starts with
merge_met_dataframes_lenient(parameters, tables) ==
    LET order == LET Test(s) == s \in DOMAIN tables IN SelectSeq(source_strategies, Test)
    IN IF order = <<>> THEN Raise("IndexError", "dataframes")
       ELSE LET index == tables[order[1]].idx
            IN Ok(Table(index, DOMAIN parameters,
                        [p \in DOMAIN parameters |->
                            LET source == parameters[p].source
                            IN IF source \in DOMAIN tables /\ p \in tables[source].cols
                               THEN Align(tables[source].val[p], tables[source].idx, index)
                               ELSE [t \in index |-> NaN]]))

\* tables: the dataframes that are not None
merge_met_dataframes(parameters, tables) ==
    LET order == LET Test(s) == s \in DOMAIN tables IN SelectSeq(source_strategies, Test)
    IN IF order = <<>> THEN Raise("IndexError", "dataframes")
       ELSE LET index == tables[order[1]].idx
                e == MergeErr(InOrder(DOMAIN parameters), parameters, tables)
            IN IF e # NoErr THEN [err |-> e, df |-> NoTable]
               ELSE Ok(Table(index, DOMAIN parameters,
                             [p \in DOMAIN parameters |->
                                 LET df == tables[parameters[p].source]
                                 IN Align(df.val[p], df.idx, index)]))

\* add_unused_columns: visibility -9.9, aerosol 10.0, cloud cover 0.00
unused_value(c) ==
    IF c = "visibility" THEN Num((0 - 99) * (Unit \div 10))
    ELSE IF c = "aerosol" THEN Num(10 * Unit)
    ELSE Num(0)

\* add_unused_columns, then add_date_columns (day, hour and minute are read
\* off the timestamp), then met_df[list(default_col_names.keys())]
merge_and_prepare_for_output(parameters, dataframes) ==
    LET kept == { s \in DOMAIN dataframes : dataframes[s].present }
        merged == merge_met_dataframes(parameters, [s \in kept |-> dataframes[s]])
    IN IF merged.err # NoErr THEN merged
       ELSE LET cols == merged.df.cols \cup SyntheticCols \cup DateCols
                missing == default_col_names \ cols
            IN IF missing # {} THEN Raise("KeyError", CHOOSE c \in missing : TRUE)
               ELSE Ok(Table(merged.df.idx, default_col_names,
                             [c \in default_col_names |->
                                 IF c \in merged.df.cols THEN merged.df.val[c]
                                 ELSE IF c \in SyntheticCols
                                      THEN [t \in merged.df.idx |-> unused_value(c)]
                                 ELSE [t \in merged.df.idx |-> Num(t)]]))

\* ------------------------------------------------------------- output.py
\* what write_met_data puts into the file: the sources line and the rows
write_met_data(met_df, parameters) ==
    [written |-> TRUE,
     sources |-> [c \in met_df.cols \ {"day", "hour", "minute"} |->
                     IF c \in DOMAIN parameters THEN parameters[c].source ELSE "-"],
     rows |-> met_df]
NoFile == [written |-> FALSE, sources |-> <<>>, rows |-> NoTable]

\* ------------------------------------------------------------- inputs
\* the station columns a station export can hold, and the readings drawn
StationColumns == <<"PSP_Total", "Precip_Tot", "precipitation", "global_shortwave", "PIR_Flux">>
RawVal(c, t) == Num(Unit * (10 * IndexIn(StationColumns, c) + t + 1))

\* a station export with every slot sampled, but for one irregular row:
\* a row that is missing, that holds NaN, or that holds negative readings
StationTable(cols, kind, at) ==
    LET idx == IF kind = "missing" THEN Slots \ {at} ELSE Slots
    IN Table(idx, cols,
             [c \in cols |-> [t \in idx |->
                 IF t = at /\ kind = "nan" THEN NaN
                 ELSE IF t = at /\ kind = "neg" THEN Num(0 - Unit)
                 ELSE RawVal(c, t)]])

Stations ==
    {NoTable}
    \cup { StationTable(cols, "none", 0) :
             cols \in {{"PSP_Total", "Precip_Tot", "PIR_Flux"}, {"PSP_Total", "PIR_Flux"}} }
    \cup { StationTable(cols, kind, at) :
             cols \in {{"PSP_Total", "Precip_Tot", "PIR_Flux"}, {"PSP_Total", "PIR_Flux"}},
             kind \in {"missing", "nan", "neg"}, at \in Slots }

\* the sources a request map may give each parameter ("absent": not requested)
SourceChoices(p) ==
    CASE p = "precipitation" -> {"met", "grib"}
      [] p = "global_shortwave" -> {"met", "grib", "absent"}
      [] p = "diffuse_shortwave" -> {"global_20%"}
      [] p = "direct_shortwave" -> {"global_80%", "absent"}
      [] p = "downwelling_lwir" -> {"met", "grib"}
      [] OTHER -> {"pvlib", "grib"}

\* config.py fills in the default station key of a parameter with source met
Request(choice) ==
    [p \in { q \in ParamNames : choice[q] # "absent" } |->
        [source |-> choice[p],
         key |-> IF choice[p] = "met" THEN default_met_keys(p) ELSE "",
         fraction |-> NoFraction]]

Requests ==
    { Request(choice) :
        choice \in { c \in [ParamNames -> UNION { SourceChoices(p) : p \in ParamNames }] :
                       \A p \in ParamNames : c[p] \in SourceChoices(p) } }

\* the cache folder before the run: not there, empty, or holding every record
CacheStates == {"nofolder", "empty", "full"}

\* no download under way, no column laid out, no record read
NoDownload == [pc |-> "idle"]
NoLayout == [pc |-> "idle"]
NoRecord == [pc |-> "idle"]

\* ------------------------------------------------------------- state
VARIABLES
    parameters,      \* the request map (mutated by the derived strategy)
    metdata,         \* read_metstation_data(metfile)
    interp_method,   \* "None" or a method
    pull_grib,
    cleanup_folder,
    folder_exists,   \* tmp_grib_folder exists
    cache,           \* per timestamp: "absent", "partial" or "complete" file
    pc,              \* "strategies", "merge", "write", "done", "failed", "call"
    step,            \* position in source_strategies
    dataframes,      \* the dict filled by process_met_data
    grib_dates,      \* what get_grib_dates returned last
    acquired,        \* timestamps pull_grib_file was called for
    met_df,          \* result of merge_and_prepare_for_output
    error,           \* the exception that ended the run
    outfile,         \* the output file
    trace,           \* the strategies started so far, in order
    global_saw,      \* dataframes as the derived strategy received it
    request,         \* the request map as it was handed to the first run
    run,             \* 1 or 2: which call of the composition this is
    first_file,      \* the file the first run wrote
    dl,              \* one call of write_grib_file_to_path
    fmt,             \* one column laid out by write_met_data
    rec              \* one archive record read by an extraction function

vars == <<parameters, metdata, interp_method, pull_grib, cleanup_folder, folder_exists, cache,
          pc, step, dataframes, grib_dates, acquired, met_df, error, outfile, trace, global_saw,
          request, run, first_file, dl, fmt, rec>>

\* what the actions of one composition run leave alone
aside == <<request, run, first_file, dl, fmt, rec>>

inputs == <<metdata, interp_method, pull_grib, cleanup_folder>>

InitInputs ==
    /\ parameters \in Requests
    /\ metdata \in Stations
    /\ interp_method \in {"None", "linear"}
    /\ pull_grib \in BOOLEAN
    /\ cleanup_folder \in BOOLEAN

InitRun ==
    /\ step = 1
    /\ dataframes = <<>>
    /\ grib_dates = {}
    /\ acquired = {}
    /\ met_df = NoTable
    /\ error = NoErr
    /\ outfile = NoFile
    /\ trace = <<>>
    /\ global_saw = <<>>
    /\ request = parameters
    /\ run = 1
    /\ first_file = NoFile
    /\ dl = NoDownload
    /\ fmt = NoLayout
    /\ rec = NoRecord

Init ==
    /\ InitInputs
    /\ \E c \in CacheStates :
          /\ folder_exists = (c # "nofolder")
          /\ cache = [t \in date_range |-> IF c = "full" THEN "complete" ELSE "absent"]
    /\ pc = "strategies"
    /\ InitRun

\* ------------------------------------------------------------- __main__.py
\* dataframes[source] = strategy.process_data(...), or the exception leaves
\* process_met_data
Store(src, res) ==
    IF res.err # NoErr
    THEN /\ pc' = "failed"
         /\ error' = res.err
         /\ UNCHANGED <<dataframes, step>>
    ELSE /\ dataframes' = [s \in DOMAIN dataframes \cup {src} |->
                              IF s = src THEN res.df ELSE dataframes[s]]
         /\ error' = error
         /\ step' = IF step < Len(source_strategies) THEN step + 1 ELSE step
         /\ pc' = IF step < Len(source_strategies) THEN "strategies" ELSE "merge"

Starts(src) ==
    /\ pc = "strategies"
    /\ source_strategies[step] = src
    /\ trace' = Append(trace, src)

\* pull_grib_files over dates: the records of got are acquired (looked up in
\* the cache, downloaded when no local copy is found); when got is not all of
\* dates, the download of failed raises: after the retries, which unlink the
\* file ("retried"), or at once, leaving the file opened for writing
\* ("other").  in_order: the dates are iterated in increasing order.
PullOutcomes(dates, in_order) ==
    { [got |-> got, failed |-> failed, how |-> how] :
        got \in SUBSET dates, failed \in dates \cup {-1}, how \in {"ok", "retried", "other"} }

Possible(o, dates, in_order) ==
    /\ (o.how = "ok") = (o.got = dates)
    /\ (o.how = "ok") = (o.failed = -1)
    /\ o.failed \notin o.got
    /\ o.failed # -1 => cache[o.failed] = "absent"
    /\ in_order => /\ \A d \in o.got : \A e \in dates : e < d => e \in o.got
                   /\ o.failed # -1 => \A e \in dates : e < o.failed => e \in o.got

AfterPull(o) ==
    [t \in date_range |->
        IF t \in o.got THEN (IF cache[t] = "absent" THEN "complete" ELSE cache[t])
        ELSE IF t = o.failed THEN (IF o.how = "other" THEN "partial" ELSE "absent")
        ELSE cache[t]]

\* process_grib_data: date selection, pull_grib_files with its finally
\* clause (shutil.rmtree when cleanup_folder), then build_grib_df
RunGrib ==
    /\ Starts("grib")
    /\ LET grib_parameters == WithSource(parameters, "grib")
       IN IF ~pull_grib /\ grib_parameters = {}
          THEN /\ Store("grib", Ok(NoTable))
               /\ UNCHANGED <<grib_dates, acquired, cache, folder_exists>>
          ELSE LET dates == get_grib_dates(metdata, parameters, date_range, interp_method, pull_grib)
                   in_order == grib_parameters # {} \/ ~metdata.present
               IN /\ grib_dates' = dates
                  /\ \E o \in PullOutcomes(dates, in_order) :
                        /\ Possible(o, dates, in_order)
                        /\ LET looked == o.got \cup (IF o.failed = -1 THEN {} ELSE {o.failed})
                               made == folder_exists \/ looked # {}
                               pulled == AfterPull(o)
                               files == IF cleanup_folder
                                        THEN [t \in date_range |-> "absent"] ELSE pulled
                               result ==
                                   IF cleanup_folder /\ ~made
                                   THEN Raise("FileNotFoundError", "tmp_grib_folder")
                                   ELSE IF o.how # "ok" THEN Raise("URLError", "gribfile")
                                   ELSE IF grib_parameters # {}
                                        THEN build_grib_df(grib_parameters, dates, files)
                                   ELSE Ok(NoTable)
                           IN /\ acquired' = acquired \cup looked
                              /\ cache' = files
                              /\ folder_exists' = (made /\ ~cleanup_folder)
                              /\ Store("grib", result)
    /\ UNCHANGED <<aside, parameters, inputs, met_df, outfile, global_saw>>

RunMet ==
    /\ Starts("met")
    /\ Store("met", process_metstation_data(parameters, metdata, date_range, interp_method))
    /\ UNCHANGED <<aside, parameters, inputs, folder_exists, cache, grib_dates, acquired, met_df,
                   outfile, global_saw>>

RunPvlib ==
    /\ Starts("pvlib")
    /\ Store("pvlib", process_pvlib_data(parameters, date_range))
    /\ UNCHANGED <<aside, parameters, inputs, folder_exists, cache, grib_dates, acquired, met_df,
                   outfile, global_saw>>

\* the derived strategy reads the dict it was handed when source_args was built
RunGlobal ==
    /\ Starts("global")
    /\ global_saw' = dataframes
    /\ LET res == process_global_data(parameters, date_range, dataframes)
       IN /\ parameters' = res.parameters
          /\ Store("global", [err |-> res.err, df |-> res.df])
    /\ UNCHANGED <<aside, inputs, folder_exists, cache, grib_dates, acquired, met_df, outfile>>

\* met_df = merge_and_prepare_for_output(parameters, dataframes)
Merge ==
    /\ pc = "merge"
    /\ LET res == merge_and_prepare_for_output(parameters, dataframes)
       IN IF res.err # NoErr
          THEN pc' = "failed" /\ error' = res.err /\ met_df' = met_df
          ELSE pc' = "write" /\ error' = error /\ met_df' = res.df
    /\ UNCHANGED <<aside, parameters, inputs, folder_exists, cache, step, dataframes, grib_dates,
                   acquired, outfile, trace, global_saw>>

\* write_met_data(met_df, optional.outfile, header, parameters)
Write ==
    /\ pc = "write"
    /\ outfile' = write_met_data(met_df, parameters)
    /\ pc' = "done"
    /\ UNCHANGED <<aside, parameters, inputs, folder_exists, cache, step, dataframes, grib_dates,
                   acquired, met_df, error, trace, global_saw>>

Next == RunGrib \/ RunMet \/ RunPvlib \/ RunGlobal \/ Merge \/ Write

Spec == Init /\ [][Next]_vars

\* ------------------------------------------------------------- direct calls
\* get_grib_dates called on its own, over every drawn input
InitDates ==
    /\ InitInputs
    /\ folder_exists = TRUE
    /\ cache = [t \in date_range |-> "absent"]
    /\ pc = "call"
    /\ InitRun

CallGetGribDates ==
    /\ pc = "call"
    /\ grib_dates' = get_grib_dates(metdata, parameters, date_range, interp_method, pull_grib)
    /\ pc' = "called"
    /\ UNCHANGED <<aside, parameters, inputs, folder_exists, cache, step, dataframes, acquired,
                   met_df, error, outfile, trace, global_saw>>

SpecDates == InitDates /\ [][CallGetGribDates]_vars

\* fill_in_missing_metdata called on its own (as the tests call it), over
\* every mapping of the two station parameters to distinct column names
KeyNames == {"Precip_Tot", "PSP_Total", "precipitation", "global_shortwave"}
KeyedRequests ==
    { [p \in {"precipitation", "global_shortwave"} |-> [source |-> "met", key |-> k[p], fraction |-> NoFraction]] :
        k \in { m \in [{"precipitation", "global_shortwave"} -> KeyNames] :
                  m["precipitation"] # m["global_shortwave"] } }

InitResample ==
    /\ parameters \in KeyedRequests
    /\ \E kind \in {"none", "missing", "nan", "neg"} : \E at \in Slots :
          /\ kind = "none" => at = 0
          /\ metdata = StationTable(Range(MetKey(parameters)), kind, at)
    /\ interp_method = "linear"
    /\ pull_grib = FALSE
    /\ cleanup_folder = FALSE
    /\ folder_exists = TRUE
    /\ cache = [t \in date_range |-> "absent"]
    /\ pc = "call"
    /\ InitRun

CallFillIn ==
    /\ pc = "call"
    /\ LET res == fill_in_missing_metdata(metdata, MetKey(parameters), date_range)
       IN /\ met_df' = res.df
          /\ error' = res.err
    /\ pc' = "called"
    /\ UNCHANGED <<aside, parameters, inputs, folder_exists, cache, step, dataframes, grib_dates,
                   acquired, outfile, trace, global_saw>>

SpecResample == InitResample /\ [][CallFillIn]_vars

\* ------------------------------------------------------------- one download
\* write_grib_file_to_path(date, header, gribfile, tmp_grib_folder,
\* number_of_retries=3, retry_delay=3), called by pull_grib_file when the cache
\* folder holds no local copy.  dl.log lists what happened, in order: the
\* outcome of each attempt and each sleep.
number_of_retries == 3
retry_delay == 3

\* the exceptions of the except clause, and one that is raised by
\* response.read() and is not among them
CaughtErrors == {"HTTPError", "URLError"}
OtherErrors == {"IncompleteRead"}

\* the request map used when neither parameters nor a station file are given
default_met_grib ==
    [p \in ParamNames |->
        [source |-> CASE p = "diffuse_shortwave" -> "global_20%"
                      [] p = "direct_shortwave" -> "global_80%"
                      [] p = "zenith" -> "pvlib"
                      [] OTHER -> "grib",
         key |-> "", fraction |-> NoFraction]]

InitDownload ==
    /\ parameters = default_met_grib
    /\ metdata = NoTable
    /\ interp_method = "None"
    /\ pull_grib = TRUE
    /\ cleanup_folder = FALSE
    /\ folder_exists = TRUE
    /\ cache = [t \in date_range |-> "absent"]
    /\ pc = "call"
    /\ step = 1 /\ dataframes = <<>> /\ grib_dates = {} /\ acquired = {} /\ met_df = NoTable
    /\ error = NoErr /\ outfile = NoFile /\ trace = <<>> /\ global_saw = <<>>
    /\ request = parameters /\ run = 1 /\ first_file = NoFile /\ fmt = NoLayout
    /\ rec = NoRecord
    /\ \E n \in 0 .. number_of_retries : \E t \in date_range :
          dl = [pc |-> "open", date |-> t, retries |-> n, attempt |-> 0, file |-> "absent",
                log |-> <<>>, raised |-> "none", gave_up |-> FALSE, waited |-> 0]

\* lp = open(gribfilepath, "wb") before the loop: the file is created
DlOpen ==
    /\ dl.pc = "open"
    /\ dl' = [dl EXCEPT !.pc = "attempt", !.file = "empty"]
    /\ UNCHANGED <<parameters, inputs, folder_exists, cache, pc, step, dataframes, grib_dates,
                   acquired, met_df, error, outfile, trace, global_saw, request, run,
                   first_file, fmt, rec>>

\* mutant of DlAttempt: one attempt more before giving up
DlAttempt_one_more ==
    /\ dl.pc = "attempt"
    /\ \E outcome \in {"ok"} \cup CaughtErrors \cup OtherErrors :
          dl' = IF outcome = "ok"
                THEN [dl EXCEPT !.pc = "returned", !.file = "complete",
                                !.log = Append(@, outcome)]
                ELSE IF outcome \in CaughtErrors
                THEN IF dl.attempt = dl.retries + 1
                     THEN [dl EXCEPT !.pc = "raised", !.file = "absent", !.raised = outcome,
                                     !.gave_up = TRUE, !.log = Append(@, outcome)]
                     ELSE [dl EXCEPT !.pc = "sleep", !.file = "absent",
                                     !.log = Append(@, outcome)]
                ELSE [dl EXCEPT !.pc = "raised", !.file = "partial", !.raised = outcome,
                                !.log = Append(@, outcome)]
    /\ UNCHANGED <<parameters, inputs, folder_exists, cache, pc, step, dataframes, grib_dates,
                   acquired, met_df, error, outfile, trace, global_saw, request, run,
                   first_file, fmt, rec>>

\* mutant of DlAttempt: the file of a failed attempt is left where it is
DlAttempt_keeps_file ==
    /\ dl.pc = "attempt"
    /\ \E outcome \in {"ok"} \cup CaughtErrors \cup OtherErrors :
          dl' = IF outcome = "ok"
                THEN [dl EXCEPT !.pc = "returned", !.file = "complete",
                                !.log = Append(@, outcome)]
                ELSE IF outcome \in CaughtErrors
                THEN IF dl.attempt = dl.retries
                     THEN [dl EXCEPT !.pc = "raised", !.file = "partial", !.raised = outcome,
                                     !.gave_up = TRUE, !.log = Append(@, outcome)]
                     ELSE [dl EXCEPT !.pc = "sleep", !.file = "partial",
                                     !.log = Append(@, outcome)]
                ELSE [dl EXCEPT !.pc = "raised", !.file = "partial", !.raised = outcome,
                                !.log = Append(@, outcome)]
    /\ UNCHANGED <<parameters, inputs, folder_exists, cache, pc, step, dataframes, grib_dates,
                   acquired, met_df, error, outfile, trace, global_saw, request, run,
                   first_file, fmt, rec>>

\* one pass of the loop body: the file is opened for writing, fetched and
\* written, and the loop is left; or one of the caught errors is raised, the
\* file is unlinked, and the error is raised again when this was the last
\* attempt; or another error is raised and leaves the function as it is
DlAttempt ==
    /\ dl.pc = "attempt"
    /\ \E outcome \in {"ok"} \cup CaughtErrors \cup OtherErrors :
          dl' = IF outcome = "ok"
                THEN [dl EXCEPT !.pc = "returned", !.file = "complete",
                                !.log = Append(@, outcome)]
                ELSE IF outcome \in CaughtErrors
                THEN IF dl.attempt = dl.retries
                     THEN [dl EXCEPT !.pc = "raised", !.file = "absent", !.raised = outcome,
                                     !.gave_up = TRUE, !.log = Append(@, outcome)]
                     ELSE [dl EXCEPT !.pc = "sleep", !.file = "absent",
                                     !.log = Append(@, outcome)]
                ELSE [dl EXCEPT !.pc = "raised", !.file = "partial", !.raised = outcome,
                                !.log = Append(@, outcome)]
    /\ UNCHANGED <<parameters, inputs, folder_exists, cache, pc, step, dataframes, grib_dates,
                   acquired, met_df, error, outfile, trace, global_saw, request, run,
                   first_file, fmt, rec>>

\* time.sleep(retry_delay) at the end of the loop body, then the next pass
DlSleep ==
    /\ dl.pc = "sleep"
    /\ dl' = [dl EXCEPT !.pc = "attempt", !.attempt = @ + 1, !.waited = @ + retry_delay,
                        !.log = Append(@, "sleep")]
    /\ UNCHANGED <<parameters, inputs, folder_exists, cache, pc, step, dataframes, grib_dates,
                   acquired, met_df, error, outfile, trace, global_saw, request, run,
                   first_file, fmt, rec>>

NextDownload == DlOpen \/ DlAttempt \/ DlSleep

\* the call runs on: nothing but the fetch itself can hold it up
SpecDownload == InitDownload /\ [][NextDownload]_vars /\ WF_vars(NextDownload)

\* ------------------------------------------------------------- the cache folder
\* two runs of process_grib_data over the same cache folder, every parameter
\* of the registry's archive defaults being archive-sourced: pull_grib_files
\* calls pull_grib_file for each timestamp of the grid in turn, and
\* build_grib_df then opens each path.  cache[t] is what the cache folder
\* holds for timestamp t between two calls of pull_grib_file.

\* gribfile_path.is_file(): any file of that name is a local copy
find_local_grib_file(content) == content # "absent"

InitCache ==
    /\ parameters = default_met_grib
    /\ metdata = NoTable
    /\ interp_method = "None"
    /\ pull_grib = TRUE
    /\ cleanup_folder = FALSE
    /\ folder_exists = TRUE
    /\ cache = [t \in date_range |-> "absent"]
    /\ pc = "pull"
    /\ step = 1 /\ dataframes = <<>> /\ acquired = {} /\ met_df = NoTable
    /\ grib_dates = get_grib_dates(metdata, parameters, date_range, interp_method, pull_grib)
    /\ error = NoErr /\ outfile = NoFile /\ trace = <<>> /\ global_saw = <<>>
    /\ request = parameters /\ run = 1 /\ first_file = NoFile /\ fmt = NoLayout
    /\ dl = NoDownload
    /\ rec = NoRecord

\* pull_grib_file for the next timestamp of the loop: a local copy is used as
\* it is, and without one write_grib_file_to_path is called
CachePull ==
    /\ pc = "pull"
    /\ grib_dates \ acquired # {}
    /\ LET date == Min(grib_dates \ acquired)
           call == [pc |-> "open", date |-> date, retries |-> number_of_retries, attempt |-> 0,
                    file |-> cache[date], log |-> <<>>, raised |-> "none", gave_up |-> FALSE,
                    waited |-> 0]
       IN IF find_local_grib_file(cache[date])
          THEN /\ dl' = [call EXCEPT !.pc = "reused"]
               /\ acquired' = acquired \cup {date}
               /\ pc' = pc
          ELSE /\ dl' = call
               /\ acquired' = acquired
               /\ pc' = "download"
    /\ UNCHANGED <<parameters, inputs, folder_exists, cache, step, dataframes, grib_dates,
                   met_df, error, outfile, trace, global_saw, request, run, first_file, fmt, rec>>

\* write_grib_file_to_path is left: the file it leaves is in the cache folder;
\* pull_grib_file returns the path, or the error leaves pull_grib_files and
\* process_grib_data
CacheSettle ==
    /\ pc = "download"
    /\ dl.pc \in {"returned", "raised"}
    /\ cache' = [cache EXCEPT ![dl.date] = dl.file]
    /\ IF dl.pc = "returned"
       THEN /\ acquired' = acquired \cup {dl.date}
            /\ pc' = "pull"
            /\ error' = error
       ELSE /\ acquired' = acquired
            /\ pc' = "failed"
            /\ error' = Err(dl.raised, "gribfile")
    /\ UNCHANGED <<parameters, inputs, folder_exists, step, dataframes, grib_dates, met_df,
                   outfile, trace, global_saw, request, run, first_file, dl, fmt, rec>>

\* build_grib_df over the paths pull_grib_files returned; rec is the record
\* that was opened last, with what retrieve_gid_list returned for it
CacheBuild ==
    /\ pc = "pull"
    /\ grib_dates \ acquired = {}
    /\ LET grib_parameters == WithSource(parameters, "grib")
           res == build_grib_df(grib_parameters, grib_dates, cache)
           bad == { d \in grib_dates : DateErr(InOrder(grib_parameters), cache[d]) # NoErr }
           last == IF bad = {} THEN Max(grib_dates) ELSE Min(bad)
       IN /\ rec' = [pc |-> "opened", date |-> last, opened |-> retrieve_gid_list(cache[last])]
          /\ IF res.err # NoErr
             THEN pc' = "failed" /\ error' = res.err /\ dataframes' = dataframes
             ELSE pc' = "done" /\ error' = error /\ dataframes' = [grib |-> res.df]
    /\ UNCHANGED <<parameters, inputs, folder_exists, cache, step, grib_dates, acquired, met_df,
                   outfile, trace, global_saw, request, run, first_file, dl, fmt>>

\* the program is run again with the same configuration and cache folder
CacheRerun ==
    /\ pc \in {"done", "failed"}
    /\ run = 1
    /\ run' = 2
    /\ pc' = "pull"
    /\ acquired' = {}
    /\ dataframes' = <<>>
    /\ error' = NoErr
    /\ dl' = NoDownload
    /\ rec' = NoRecord
    /\ UNCHANGED <<parameters, inputs, folder_exists, cache, step, grib_dates, met_df, outfile,
                   trace, global_saw, request, first_file, fmt>>

NextCache == CachePull \/ DlOpen \/ DlAttempt \/ DlSleep \/ CacheSettle \/ CacheBuild \/ CacheRerun

SpecCache == InitCache /\ [][NextCache]_vars

\* ------------------------------------------------------------- one column laid out
\* write_met_data's treatment of one column: the width it computes, and the
\* cells it writes under it.  A text is a sequence of characters.  A cell of
\* the table is a float (its value in hundredths), NaN, an integer or a string.
Float(neg, h) == [type |-> "float", neg |-> neg, n |-> h, s |-> <<>>]
FloatNaN == [type |-> "nan", neg |-> FALSE, n |-> 0, s |-> <<>>]
Integer(neg, n) == [type |-> "int", neg |-> neg, n |-> n, s |-> <<>>]
Str(s) == [type |-> "str", neg |-> FALSE, n |-> 0, s |-> s]

Spaces(n) == [i \in 1 .. n |-> " "]
Zeros(n) == [i \in 1 .. n |-> "0"]
Pow10(k) == IF k = 0 THEN 1 ELSE IF k = 1 THEN 10 ELSE 100

RECURSIVE Digits(_)
\* the decimal digits of a natural number
Digits(n) ==
    LET d == <<"0", "1", "2", "3", "4", "5", "6", "7", "8", "9">>[(n % 10) + 1]
    IN IF n < 10 THEN <<d>> ELSE Append(Digits(n \div 10), d)

\* str(item) of an integer or a string
py_str(item) ==
    IF item.type = "str" THEN item.s
    ELSE (IF item.neg THEN <<"-">> ELSE <<>>) \o Digits(item.n)

\* f'{item:.{decimals}f}': a float is rounded to the decimals (to the nearer
\* neighbour; the values drawn lie on no tie), an integer gets a point and
\* zeros, NaN reads 'nan', a string raises ValueError (ok = FALSE)
format_f(item, decimals) ==
    LET point(whole, frac) ==
            Digits(whole) \o (IF decimals = 0 THEN <<>>
                              ELSE <<".">> \o Zeros(decimals - Len(Digits(frac))) \o Digits(frac))
        sign == IF item.neg THEN <<"-">> ELSE <<>>
    IN IF item.type = "str" THEN [ok |-> FALSE, text |-> <<>>]
       ELSE IF item.type = "nan" THEN [ok |-> TRUE, text |-> <<"n", "a", "n">>]
       ELSE IF item.type = "int"
            THEN [ok |-> TRUE,
                  text |-> sign \o Digits(item.n)
                           \o (IF decimals = 0 THEN <<>> ELSE <<".">> \o Zeros(decimals))]
       ELSE LET cut == Pow10(2 - decimals)
                scaled == (item.n \div cut) + (IF 2 * (item.n % cut) > cut THEN 1 ELSE 0)
            IN [ok |-> TRUE,
                text |-> sign \o point(scaled \div Pow10(decimals), scaled % Pow10(decimals))]

\* the columns laid out here, with default_met_decimal.get(col, 0),
\* default_met_width[col], default_col_names[col] and default_met_units[col]
LayoutCols == {"global_shortwave", "zenith", "day"}
default_met_decimal(col) ==
    CASE col = "global_shortwave" -> 2 [] col = "zenith" -> 1 [] OTHER -> 0
default_met_width(col) ==
    CASE col = "global_shortwave" -> 7 [] col = "zenith" -> 7 [] OTHER -> 5
col_name(col) ==
    CASE col = "global_shortwave" -> <<"G", "l", "o", "b", "a", "l">>
      [] col = "zenith" -> <<"Z", "e", "n", "i", "t", "h">>
      [] OTHER -> <<"D", "a", "y">>
default_met_units(col) ==
    CASE col = "global_shortwave" -> <<"W", "/", "m", "2">>
      [] col = "zenith" -> <<"d", "e", "g">>
      [] col = "pressure" -> <<"m", "b", "a", "r">>
      [] OTHER -> <<"j">>

\* f'{text:<{width}}'
ljust(text, width) == IF Len(text) < width THEN text \o Spaces(width - Len(text)) ELSE text

\* max(len(f'{item:.{decimals}f}') if isinstance(item, float) else len(str(item))) + 1,
\* then the larger of it and default_met_width[col]
max_lengths(col, items) ==
    LET decimals == default_met_decimal(col)
        length(item) == IF item.type \in {"float", "nan"}
                        THEN Len(format_f(item, decimals).text)
                        ELSE Len(py_str(item))
        max_length == Max({ length(items[i]) : i \in DOMAIN items }) + 1
    IN Max({max_length, default_met_width(col)})

\* the text of one cell as the row loop writes it, before the padding
formatted_item(col, item) ==
    LET f == format_f(item, default_met_decimal(col))
    IN IF f.ok THEN f.text ELSE py_str(item)

\* the cells a column of the merged table can hold
Cells(col) ==
    IF col = "day" THEN {Str(<<"0", "0", "1">>), Str(<<"3", "6", "5">>)}
    ELSE {Float(FALSE, 0), Float(FALSE, 123), Float(TRUE, 999), Float(FALSE, 99999),
          Float(FALSE, 12345678), FloatNaN, Integer(FALSE, 7), Integer(FALSE, 1000), Integer(TRUE, 12345)}

InitLayout ==
    /\ parameters = default_met_grib
    /\ metdata = NoTable
    /\ interp_method = "None"
    /\ pull_grib = FALSE
    /\ cleanup_folder = FALSE
    /\ folder_exists = TRUE
    /\ cache = [t \in date_range |-> "absent"]
    /\ pc = "call"
    /\ step = 1 /\ dataframes = <<>> /\ grib_dates = {} /\ acquired = {} /\ met_df = NoTable
    /\ error = NoErr /\ outfile = NoFile /\ trace = <<>> /\ global_saw = <<>>
    /\ request = parameters /\ run = 1 /\ first_file = NoFile /\ dl = NoDownload
    /\ rec = NoRecord
    /\ \E col \in LayoutCols : \E items \in [1 .. GridLen -> Cells(col)] :
          fmt = [pc |-> "lay", col |-> col, items |-> items, width |-> 0,
                 name |-> <<>>, unit |-> <<>>, cells |-> <<>>]

\* write_met_data for the column: its width; its name, its unit and, row
\* after row, its values, each left-justified in that width
LayOut ==
    /\ fmt.pc = "lay"
    /\ LET width == max_lengths(fmt.col, fmt.items)
       IN fmt' = [fmt EXCEPT !.pc = "written",
                             !.width = width,
                             !.name = ljust(col_name(fmt.col), width),
                             !.unit = ljust(default_met_units(fmt.col), width),
                             !.cells = [i \in DOMAIN fmt.items |->
                                           ljust(formatted_item(fmt.col, fmt.items[i]), width)]]
    /\ UNCHANGED <<parameters, inputs, folder_exists, cache, pc, step, dataframes, grib_dates,
                   acquired, met_df, error, outfile, trace, global_saw, request, run,
                   first_file, dl, rec>>

SpecLayout == InitLayout /\ [][LayOut]_vars

\* ------------------------------------------------------------- one field extracted
\* get_pressure_grib: the value of the surface-pressure field nearest to the
\* site, in Pa, divided by 1000.0; the result is a number of the model (a
\* multiple of 1/Unit)
get_pressure_grib(pressure_in_Pa) == Num((pressure_in_Pa * Unit) \div 1000)

\* the surface pressures drawn, in Pa: 950 to 1050 hPa in steps of 1 hPa
SurfacePressures == { 95000 + 100 * k : k \in 0 .. 100 }

InitPressure ==
    /\ parameters = default_met_grib
    /\ metdata = NoTable
    /\ interp_method = "None"
    /\ pull_grib = TRUE
    /\ cleanup_folder = FALSE
    /\ folder_exists = TRUE
    /\ cache = [t \in date_range |-> "complete"]
    /\ pc = "call"
    /\ step = 1 /\ dataframes = <<>> /\ grib_dates = {} /\ acquired = {} /\ met_df = NoTable
    /\ error = NoErr /\ outfile = NoFile /\ trace = <<>> /\ global_saw = <<>>
    /\ request = parameters /\ run = 1 /\ first_file = NoFile /\ dl = NoDownload
    /\ fmt = NoLayout
    /\ \E p \in SurfacePressures :
          rec = [pc |-> "read", field |-> p, value |-> NaN]

\* grib_function_mapper["pressure"](gid_list, latitude, longitude)
ExtractPressure ==
    /\ rec.pc = "read"
    /\ rec' = [rec EXCEPT !.pc = "extracted", !.value = get_pressure_grib(rec.field)]
    /\ UNCHANGED <<parameters, inputs, folder_exists, cache, pc, step, dataframes, grib_dates,
                   acquired, met_df, error, outfile, trace, global_saw, request, run,
                   first_file, dl, fmt>>

SpecPressure == InitPressure /\ [][ExtractPressure]_vars

\* composition runs over the request maps that use the derived sources: fixed
\* percentages, an explicit fraction, the cosine-zenith partition, and 'brunt'
DerivedChoices(p) ==
    CASE p = "precipitation" -> {"met"}
      [] p = "global_shortwave" -> {"met", "grib"}
      [] p = "diffuse_shortwave" -> {"global_20%", "global_80%", "global_coszenith"}
      [] p = "direct_shortwave" -> {"global_80%", "global_fraction", "global_coszenith"}
      [] p = "downwelling_lwir" -> {"met", "brunt"}
      [] OTHER -> {"pvlib"}

DerivedRequests ==
    { [p \in ParamNames |->
          [source |-> choice[p],
           key |-> IF choice[p] = "met" THEN default_met_keys(p) ELSE "",
           fraction |-> IF p = "direct_shortwave" THEN fraction ELSE NoFraction]] :
        choice \in { c \in [ParamNames -> UNION { DerivedChoices(p) : p \in ParamNames }] :
                       \A p \in ParamNames : c[p] \in DerivedChoices(p) },
        fraction \in {NoFraction, 80} }

InitDerived ==
    /\ parameters \in DerivedRequests
    /\ parameters["direct_shortwave"].source = "global_80%" =>
          parameters["direct_shortwave"].fraction = NoFraction
    /\ \E kind \in {"none", "nan", "neg"} :
          metdata = StationTable({"PSP_Total", "Precip_Tot", "PIR_Flux"}, kind, 0)
    /\ interp_method = "None"
    /\ pull_grib = FALSE
    /\ cleanup_folder = FALSE
    /\ folder_exists = TRUE
    /\ cache = [t \in date_range |-> "complete"]
    /\ pc = "strategies"
    /\ InitRun

SpecDerived == InitDerived /\ [][Next]_vars

\* process_met_data and write_met_data called a second time with the inputs
\* of the first call: the same request map object, station table and grid,
\* and the cache folder as the first call left it
Rerun ==
    /\ pc = "done"
    /\ run = 1
    /\ run' = 2
    /\ first_file' = outfile
    /\ pc' = "strategies"
    /\ step' = 1
    /\ dataframes' = <<>>
    /\ grib_dates' = {}
    /\ acquired' = {}
    /\ met_df' = NoTable
    /\ trace' = <<>>
    /\ global_saw' = <<>>
    /\ UNCHANGED <<parameters, inputs, folder_exists, cache, error, outfile, request, dl, fmt, rec>>

NextTwice == Next \/ Rerun

SpecTwice == InitDerived /\ [][NextTwice]_vars

\* ------------------------------------------------------------- properties
Started(src) == \E i \in 1 .. Len(trace) : trace[i] = src
AllStored == DOMAIN dataframes = {"grib", "met", "pvlib", "global"}
AnyGrib == \E p \in DOMAIN parameters : parameters[p].source = "grib"

\* the table holds no missing value in the column of any requested parameter
NoMissing(df) ==
    \A p \in DOMAIN parameters \cap df.cols : \A t \in df.idx : ~df.val[p][t].nan

\* the derived strategy asked for p, and merge found no table or column for it
Lacking(p) ==
    LET source == parameters[p].source
    IN \/ source \notin DOMAIN dataframes
       \/ ~dataframes[source].present
       \/ p \notin dataframes[source].cols

\* C1 (as claimed): the serializer is never reached, and no file is written,
\* with a merged table that holds a missing value for a requested parameter.
C1_NoMissingValueReachesWriter ==
    /\ pc \in {"write", "done"} => NoMissing(met_df)
    /\ outfile.written => NoMissing(outfile.rows)

\* C2 (as claimed): the station strategy has returned before the archive
\* strategy starts.
C2_StationBeforeArchive == Started("grib") => "met" \in DOMAIN dataframes

\* C2 (amended): the strategies start in the order archive, station,
\* astronomical, derived, each after the one before it has returned.
C2_ArchiveStationAstronomicalDerived ==
    /\ \A i \in 1 .. Len(trace) : trace[i] = <<"grib", "met", "pvlib", "global">>[i]
    /\ \A i \in 1 .. Len(trace) - 1 : trace[i] \in DOMAIN dataframes
C2_StationStartedAfterArchive ==
    /\ Len(trace) >= 2 /\ trace[2] = "met"
    /\ dataframes["grib"].present

\* C3: when the derived strategy starts, the station, archive and astronomical
\* strategies have returned and the mapping it reads holds their results.
C3_DerivedStartsLast ==
    Started("global") =>
        /\ {"grib", "met", "pvlib"} \subseteq DOMAIN global_saw
        /\ \A s \in {"grib", "met", "pvlib"} :
              \E i \in 1 .. Len(trace) - 1 : trace[i] = s /\ trace[Len(trace)] = "global"
        /\ global_saw["met"] =
              process_metstation_data(parameters, metdata, date_range, interp_method).df
        /\ global_saw["pvlib"] = process_pvlib_data(parameters, date_range).df
        /\ global_saw["grib"].present =>
              /\ global_saw["grib"].cols = WithSource(parameters, "grib")
              /\ \A p \in global_saw["grib"].cols : \A t \in global_saw["grib"].idx :
                    global_saw["grib"].val[p][t] = GribVal(p, t)
        /\ ~global_saw["grib"].present => WithSource(parameters, "grib") = {}
C3_DerivedReadsAllThree ==
    /\ Started("global")
    /\ global_saw["grib"].present /\ global_saw["met"].present /\ global_saw["pvlib"].present
    /\ "global" \in DOMAIN dataframes /\ dataframes["global"].present

\* C4 (as claimed): a file is written only after every strategy and the merge
\* have completed and the merged table has been validated (it holds no missing
\* value for a requested parameter); a run that failed has written nothing.
C4_FileOnlyAfterValidation ==
    /\ outfile.written =>
          /\ pc = "done" /\ AllStored /\ met_df.present
          /\ outfile.rows = met_df
          /\ NoMissing(met_df)
    /\ pc = "failed" => ~outfile.written

\* C5 (as claimed): a grib parameter without extraction function makes the
\* archive strategy fail, naming it, before any record is looked up or fetched.
C5_UnsupportedFailsBeforeAcquisition ==
    (Started("grib") /\ WithSource(parameters, "grib") \ grib_function_mapper # {}) =>
        /\ pc = "failed"
        /\ error.kind = "NotImplementedError"
        /\ error.param \in WithSource(parameters, "grib") \ grib_function_mapper
        /\ acquired = {}

\* C6: after the merge, every requested parameter's column is the column of
\* that name in the table of its resolved source; when a source has no table
\* or the table lacks the column, the merge has raised and returned no table.
C6_MergeTakesColumnFromResolvedSource ==
    (AllStored /\ pc # "merge") =>
        /\ (\E p \in DOMAIN parameters : Lacking(p)) => (pc = "failed" /\ ~met_df.present)
        /\ pc \in {"write", "done"} =>
              \A p \in DOMAIN parameters :
                  met_df.val[p] = dataframes[parameters[p].source].val[p]
C6_MergedFromThreeTables ==
    /\ pc = "done"
    /\ parameters["precipitation"].source = "grib"
    /\ parameters["global_shortwave"].source = "met"
    /\ parameters["direct_shortwave"].source = "global"
    /\ parameters["zenith"].source = "pvlib"

\* C7: the merged table has exactly one row per grid timestamp.
C7_OneRowPerGridTimestamp ==
    pc \in {"write", "done"} =>
        /\ met_df.idx = date_range
        /\ Cardinality(met_df.idx) = GridLen
        /\ \A c \in met_df.cols : DOMAIN met_df.val[c] = date_range
C7_MergedWithArchiveTableFirst ==
    /\ pc = "done"
    /\ dataframes["grib"].present /\ dataframes["met"].present
    /\ met_df.idx = date_range

\* C8 (as claimed): station table present, no archive parameter, no
\* interpolation method: the date selection returns the grid timestamps the
\* station index lacks.
C8_GapFillWithoutPullGrib ==
    (pc = "called" /\ metdata.present /\ ~AnyGrib /\ interp_method = "None") =>
        grib_dates = date_range \ metdata.idx

\* C8 (amended): the same, when pull_grib is set.
C8_GapFillWhenPullGrib ==
    (pc = "called" /\ metdata.present /\ ~AnyGrib /\ interp_method = "None" /\ pull_grib) =>
        grib_dates = date_range \ metdata.idx
C8_SomeButNotAllMissing ==
    /\ pc = "called" /\ metdata.present /\ ~AnyGrib /\ interp_method = "None" /\ pull_grib
    /\ grib_dates # {} /\ grib_dates # date_range

\* C9: any archive parameter: the full grid, whatever the other inputs; else,
\* outside the gap-fill case, the full grid when there is no station table and
\* pull_grib is set, and nothing otherwise.
C9_DateSelectionPriority ==
    pc = "called" =>
        LET gap_fill == metdata.present /\ interp_method = "None" /\ pull_grib
        IN /\ AnyGrib => grib_dates = date_range
           /\ (~AnyGrib /\ ~gap_fill /\ ~metdata.present /\ pull_grib) => grib_dates = date_range
           /\ (~AnyGrib /\ ~gap_fill /\ ~(~metdata.present /\ pull_grib)) => grib_dates = {}
C9_ArchiveParameterOverridesGapFill ==
    /\ pc = "called" /\ AnyGrib
    /\ metdata.present /\ interp_method = "None" /\ pull_grib
    /\ date_range \ metdata.idx # {}
    /\ grib_dates = date_range

\* C10 (as claimed): resampling sums the column that supplies precipitation
\* and averages every other column, whatever the station columns are called.
C10_SumForPrecipitationColumn ==
    (pc = "called" /\ error = NoErr) =>
        \A p \in DOMAIN MetKey(parameters) : \A g \in date_range :
            LET col == MetKey(parameters)[p]
                lo == Min(metdata.idx)
                hi == Max(metdata.idx)
                filled == interpolate(metdata.idx, metdata.val[col], lo, hi)
            IN met_df.val[col][g] =
                  aggregate(IF p = "precipitation" THEN "sum" ELSE "mean", filled, lo, hi, g)

\* C11 (as claimed): without a station table and with a parameter whose source
\* is 'met', the station strategy itself raises the configuration error: the
\* run has failed with it when the station strategy has been called, and no
\* later strategy is started.
C11_StationStrategyFailsWithoutTable ==
    (~metdata.present /\ WithSource(request, "met") # {} /\ Started("met")) =>
        /\ pc = "failed"
        /\ error.kind = "ValueError"
        /\ trace[Len(trace)] = "met"
        /\ "met" \notin DOMAIN dataframes

\* C12 (as claimed): when exactly one of direct_shortwave and diffuse_shortwave
\* asks for the cosine-zenith partition (and the partition has its fraction),
\* the derived strategy raises a configuration error naming one of the two and
\* returns no table.
C12_DanglingPartnerRaises ==
    LET direct == HasCoszenith(request["direct_shortwave"].source)
        diffuse == HasCoszenith(request["diffuse_shortwave"].source)
    IN (Started("global") /\ direct # diffuse
        /\ (direct => request["direct_shortwave"].fraction # NoFraction)) =>
           /\ pc = "failed"
           /\ error.kind = "ValueError"
           /\ error.param \in {"direct_shortwave", "diffuse_shortwave"}
           /\ "global" \notin DOMAIN dataframes

\* C13 (as claimed): a second run with the inputs of a first, successful run
\* (the request map and the cache as the first run left them) succeeds as well
\* and writes the same file.
C13_SecondRunWritesSameFile ==
    (run = 2 /\ pc \in {"done", "failed"}) => (pc = "done" /\ outfile = first_file)

\* attempts made and failed so far, according to the log
Attempts(log) == Len(SelectSeq(log, LAMBDA e : e # "sleep"))
Failures(log) == Len(SelectSeq(log, LAMBDA e : e \notin {"sleep", "ok"}))

\* C14: a download makes at most number_of_retries + 1 attempts and ends: it
\* returns at the first attempt that succeeds, it sleeps retry_delay between a
\* failed attempt and the next one and at no other time, and when every
\* attempt has failed it raises the error of the last one.
C14_BoundedRetriesThenReturnOrRaise ==
    /\ [](/\ Attempts(dl.log) <= dl.retries + 1
          /\ Attempts(dl.log) <= number_of_retries + 1
          /\ \A i \in 1 .. Len(dl.log) :
                /\ dl.log[i] = "ok" => (i = Len(dl.log) /\ dl.pc = "returned")
                /\ dl.log[i] = "sleep" =>
                      /\ i > 1 /\ dl.log[i - 1] \in CaughtErrors
                      /\ i < Len(dl.log) => dl.log[i + 1] # "sleep"
                /\ (dl.log[i] \notin {"ok", "sleep"} /\ i < Len(dl.log)) => dl.log[i + 1] = "sleep"
          /\ dl.waited = retry_delay * (Attempts(dl.log) - 1 + (IF dl.pc = "attempt" THEN 1 ELSE 0))
                 \/ dl.log = <<>>
          /\ dl.pc = "returned" => dl.log[Len(dl.log)] = "ok"
          /\ dl.pc = "raised" =>
                /\ Failures(dl.log) = Attempts(dl.log)
                /\ dl.raised = dl.log[Len(dl.log)])
    /\ <>(dl.pc \in {"returned", "raised"})
C14_GaveUpAfterLastRetry ==
    /\ dl.pc = "raised" /\ dl.gave_up
    /\ dl.retries = number_of_retries
    /\ Attempts(dl.log) = number_of_retries + 1
    /\ dl.waited = retry_delay * number_of_retries

\* C15: when an attempt starts after a failed one, and while the function
\* sleeps before it, the file of the failed attempt is gone from the cache
\* folder; when the function has given up after the last retry, no file for the
\* timestamp is left there.
C15_FailedAttemptLeavesNoFile ==
    /\ dl.pc = "sleep" => dl.file = "absent"
    /\ (dl.pc = "attempt" /\ dl.attempt > 0) => dl.file = "absent"
    /\ (dl.pc = "raised" /\ dl.gave_up) => dl.file = "absent"
C15_RetriedTwiceThenGaveUp ==
    /\ dl.pc = "raised" /\ dl.gave_up
    /\ dl.retries >= 2
    /\ Failures(dl.log) = dl.retries + 1
    /\ dl.file = "absent"

\* C16 (as claimed): a parameter whose source is 'brunt' is computed by the
\* derived strategy: the table the derived strategy returns holds its column,
\* and so does the merged table of the run.
C16_BruntColumnComputed ==
    request["downwelling_lwir"].source = "brunt" =>
        /\ "global" \in DOMAIN dataframes =>
              /\ dataframes["global"].present
              /\ "downwelling_lwir" \in dataframes["global"].cols
        /\ (AllStored /\ pc # "merge") =>
              /\ pc \in {"write", "done"}
              /\ "downwelling_lwir" \in met_df.cols

\* the derived strategy has returned a table with both shortwave parts
BothParts ==
    /\ "global" \in DOMAIN dataframes /\ dataframes["global"].present
    /\ {"direct_shortwave", "diffuse_shortwave"} \subseteq dataframes["global"].cols

\* in every row where global_shortwave is not missing, the two parts of the
\* derived table add up to it
PartsAddUp ==
    LET gsw == dataframes[request["global_shortwave"].source].val["global_shortwave"]
        direct == dataframes["global"].val["direct_shortwave"]
        diffuse == dataframes["global"].val["diffuse_shortwave"]
    IN \A t \in date_range :
          ~gsw[t].nan => /\ ~direct[t].nan /\ ~diffuse[t].nan
                         /\ direct[t].v + diffuse[t].v = gsw[t].v

\* the share of global_shortwave a fixed-fraction request asks for, in
\* percent (0 for a request that is no fixed fraction)
Share(r) ==
    IF HasPercent(r.source) THEN Percent(r.source)
    ELSE IF HasFraction(r.source) /\ r.fraction # NoFraction THEN r.fraction
    ELSE 0

\* C17 (as claimed): whenever the derived strategy has produced both
\* direct_shortwave and diffuse_shortwave, they add up to global_shortwave in
\* every row.
C17_PartsAlwaysAddUp == BothParts => PartsAddUp

\* C17 (amended): they add up when both are requested as the cosine-zenith
\* partition, or as fixed fractions that add up to one.
C17_ComplementaryPartsAddUp ==
    LET direct == request["direct_shortwave"]
        diffuse == request["diffuse_shortwave"]
    IN (BothParts
        /\ \/ HasCoszenith(direct.source) /\ HasCoszenith(diffuse.source)
           \/ /\ Share(direct) > 0 /\ Share(diffuse) > 0
              /\ Share(direct) + Share(diffuse) = 100) => PartsAddUp
C17_PartitionWithSunAboveHorizon ==
    /\ BothParts
    /\ HasCoszenith(request["direct_shortwave"].source)
    /\ HasCoszenith(request["diffuse_shortwave"].source)
    /\ \E t \in date_range :
          /\ dataframes["global"].val["direct_shortwave"][t].v > 0
          /\ dataframes["global"].val["diffuse_shortwave"][t].v > 0
          /\ dataframes["global"].val["direct_shortwave"][t].v
                # dataframes["global"].val["diffuse_shortwave"][t].v

\* C18 (as claimed): in the file, the sources line shows for every derived
\* parameter the source expression it was requested with and computed from,
\* not the tag 'global'.
C18_SourcesLineNamesComputation ==
    outfile.written =>
        \A p \in DOMAIN request :
            StartsWithGlobal(request[p].source) =>
                /\ outfile.sources[p] = request[p].source
                /\ outfile.sources[p] # "global"

\* the station table before the clipping step: the requested columns of the
\* (resampled) station export on the grid
BeforeClip ==
    LET met_key == MetKey(request)
        filled == IF interp_method # "None"
                  THEN fill_in_missing_metdata(metdata, met_key, date_range).df
                  ELSE metdata
    IN build_metstation_df(met_key, filled, date_range).df

\* C19: in the table the station strategy returns, every global_shortwave
\* value that was below zero is 0.0, and every other value of every column
\* is as it was before the clipping step.
C19_OnlyNegativeGlobalShortwaveClipped ==
    ("met" \in DOMAIN dataframes /\ dataframes["met"].present) =>
        LET df == dataframes["met"]
        IN /\ df.cols = BeforeClip.cols /\ df.idx = BeforeClip.idx
           /\ \A c \in df.cols : \A g \in df.idx :
                 LET was == BeforeClip.val[c][g]
                 IN df.val[c][g] =
                       IF c = "global_shortwave" /\ ~was.nan /\ was.v < 0 THEN Num(0) ELSE was
C19_NegativeReadingsInTwoColumns ==
    /\ "met" \in DOMAIN dataframes /\ dataframes["met"].present
    /\ \E g \in date_range :
          /\ BeforeClip.val["global_shortwave"][g].v < 0
          /\ dataframes["met"].val["global_shortwave"][g] = Num(0)
          /\ "precipitation" \in dataframes["met"].cols
          /\ dataframes["met"].val["precipitation"][g].v < 0

\* C20 (as claimed): the width of a column is the larger of its configured
\* width and the longest value as written plus one; the name, the unit and
\* every value fill exactly that width, so that every value ends in a space,
\* whether the cell is a float, an integer or a string.
C20_NoCellOverflows ==
    fmt.pc = "written" =>
        LET longest == Max({ Len(formatted_item(fmt.col, fmt.items[i])) : i \in DOMAIN fmt.items })
        IN /\ fmt.width = Max({default_met_width(fmt.col), longest + 1})
           /\ Len(fmt.name) = fmt.width /\ Len(fmt.unit) = fmt.width
           /\ \A i \in DOMAIN fmt.cells :
                 /\ Len(fmt.cells[i]) = fmt.width
                 /\ fmt.cells[i][Len(fmt.cells[i])] = " "

\* C21 (as claimed): given a station table, the station strategy returns a
\* table for every set of station-sourced parameters (the empty set and the
\* sets without global_shortwave included), and the table's columns are the
\* station-sourced parameters whose key is a station column.
C21_StationStrategyReturnsForEverySet ==
    (metdata.present /\ Started("met")) =>
        /\ "met" \in DOMAIN dataframes
        /\ dataframes["met"].present
        /\ dataframes["met"].idx = date_range
        /\ dataframes["met"].cols =
              { p \in WithSource(request, "met") : request[p].key \in metdata.cols }

\* C22 (as claimed, for a request the station table has every column of):
\* with or without an interpolation method the station strategy returns a
\* table indexed by exactly the grid timestamps, and without an interpolation
\* method a grid timestamp the station table has no row for holds a missing
\* value in every column of that row.
C22_UncoveredTimestampIsMissingValue ==
    (/\ metdata.present /\ Started("met")
     /\ "global_shortwave" \in WithSource(request, "met")
     /\ \A p \in WithSource(request, "met") : request[p].key \in metdata.cols) =>
        /\ "met" \in DOMAIN dataframes
        /\ dataframes["met"].present
        /\ dataframes["met"].idx = date_range
        /\ interp_method = "None" =>
              \A g \in date_range \ metdata.idx : \A p \in dataframes["met"].cols :
                  dataframes["met"].val[p][g].nan

\* C24 (as claimed): whatever the set of requested parameters, once every
\* strategy has returned a table with the columns asked of it, the merge
\* returns a table whose columns are the requested parameters, the nine
\* synthetic columns and the three calendar columns, and no others.
C24_MergedColumnsAreRequestedPlusFixed ==
    (AllStored /\ pc # "merge" /\ \A p \in DOMAIN parameters : ~Lacking(p)) =>
        /\ met_df.present
        /\ met_df.cols = DOMAIN request \cup SyntheticCols \cup DateCols

\* C26 (as claimed): when pull_grib_files has returned the paths of the
\* archive records (no download failed), every one of them is still a file
\* when build_grib_df opens it, with cleanup_folder set or not.
C26_ReturnedPathsExistWhenRead ==
    (/\ Started("grib")
     /\ WithSource(request, "grib") # {}
     /\ error \notin {Err("URLError", "gribfile"), Err("FileNotFoundError", "tmp_grib_folder")}) =>
        /\ error # Err("FileNotFoundError", "gribfile")
        /\ \A t \in grib_dates : cache[t] # "absent"

\* the grid timestamps the station table has no row for
Gaps == IF metdata.present THEN date_range \ metdata.idx ELSE {}

\* C28 (as claimed): with a station table that lacks some grid timestamps, no
\* interpolation method, pull_grib set and no archive-sourced parameter, the
\* archive strategy fetches the records of exactly those timestamps and
\* returns their values, the run completes, and the merged table holds the
\* archive values in the rows of those timestamps.
C28_GapsFilledFromFetchedRecords ==
    (/\ Gaps # {} /\ interp_method = "None" /\ pull_grib
     /\ WithSource(request, "grib") = {}
     /\ "global_shortwave" \in WithSource(request, "met")
     /\ \A p \in WithSource(request, "met") : request[p].key \in metdata.cols
     /\ error \notin {Err("URLError", "gribfile"), Err("FileNotFoundError", "tmp_grib_folder")}) =>
        /\ "grib" \in DOMAIN dataframes =>
              /\ grib_dates = Gaps
              /\ dataframes["grib"].present
              /\ dataframes["grib"].idx = Gaps
        /\ pc # "failed"
        /\ pc \in {"write", "done"} =>
              \A t \in Gaps : \A p \in WithSource(request, "met") :
                  met_df.val[p][t] = GribVal(p, t)

\* C30 (as claimed): in every row of the cosine-zenith partition where
\* global_shortwave is not negative (the fraction being between 0 and 1),
\* direct_shortwave and diffuse_shortwave both lie between 0 and
\* global_shortwave, the rows with the sun below the horizon included.
C30_PartitionWithinGlobal ==
    (/\ BothParts
     /\ HasCoszenith(request["direct_shortwave"].source)
     /\ HasCoszenith(request["diffuse_shortwave"].source)
     /\ request["direct_shortwave"].fraction \in 0 .. 100) =>
        LET gsw == dataframes[request["global_shortwave"].source].val["global_shortwave"]
            direct == dataframes["global"].val["direct_shortwave"]
            diffuse == dataframes["global"].val["diffuse_shortwave"]
        IN \A t \in date_range :
              (~gsw[t].nan /\ gsw[t].v >= 0) =>
                  /\ 0 <= direct[t].v /\ direct[t].v <= gsw[t].v
                  /\ 0 <= diffuse[t].v /\ diffuse[t].v <= gsw[t].v

\* C29 (as claimed): when direct_shortwave asks for the cosine-zenith
\* partition and diffuse_shortwave for a fixed percentage of global_shortwave,
\* the diffuse_shortwave column of the derived table holds that percentage of
\* global_shortwave in every row.
C29_DiffuseKeepsItsOwnDerivation ==
    (/\ HasCoszenith(request["direct_shortwave"].source)
     /\ HasPercent(request["diffuse_shortwave"].source)
     /\ "global" \in DOMAIN dataframes /\ dataframes["global"].present) =>
        LET gsw == dataframes[request["global_shortwave"].source].val["global_shortwave"]
            own == process_global_fraction(gsw, Percent(request["diffuse_shortwave"].source))
        IN /\ "diffuse_shortwave" \in dataframes["global"].cols
           /\ \A t \in date_range : dataframes["global"].val["diffuse_shortwave"][t] = own[t]

\* C25 (as claimed): the pressure extracted from the archive is the
\* surface-pressure field converted from Pa to the unit the registry declares
\* for the pressure column, mbar: a field of p Pa gives p / 100.
C25_PressureInDeclaredUnit ==
    (rec.pc = "extracted" /\ default_met_units("pressure") = <<"m", "b", "a", "r">>) =>
        rec.value = Num((rec.field * Unit) \div 100)

\* C23 (as claimed): opening an archive record whose file is empty or
\* incomplete raises an error that names the file; no empty list of handles is
\* returned to the extraction functions.
C23_EmptyRecordRaisesNamingFile ==
    (rec.pc = "opened" /\ cache[rec.date] = "partial") =>
        /\ rec.opened.err # NoErr
        /\ rec.opened.err.param = "gribfile"
        /\ error = rec.opened.err

\* C27 (as claimed): a file that find_local_grib_file reports as a local copy,
\* and that pull_grib_file therefore uses without a download, is a completely
\* downloaded archive record.
C27_LocalCopyIsComplete ==
    /\ dl.pc = "reused" => dl.file = "complete"
    /\ (pc = "pull" /\ dl.pc \in {"idle", "reused", "returned"}) =>
          \A t \in date_range : find_local_grib_file(cache[t]) => cache[t] = "complete"

====
